---- MODULE Spec2Model ----
(***************************************************************************)
(* The interactive state machine of stealth-grid-cli (pkg/model/model.go,  *)
(* the snapshot at lines 1-522, the one pkg/graphql/graphql.go and the     *)
(* package's tests compile against).  One step of the model is one call    *)
(* of Model.Update by the bubbletea event loop: a key event, or the        *)
(* result message of a command (a goroutine) dispatched earlier.           *)
(*                                                                         *)
(* Strings the program edits byte by byte (the day buffers) are sequences  *)
(* of one-character strings.  Spinner frames and the rendered text are     *)
(* not part of the state.                                                  *)
(***************************************************************************)
EXTENDS Integers, Sequences, FiniteSets, Bags, TLC

VARIABLES
    proc,          \* "running" | "quit" (tea.Quit) | "crashed" (a Go panic in Update)
                   \* | "startup" (main before InitConfig) | "exited" (os.Exit(1))
    CurrentState,  \* Model.CurrentState
    Loading,       \* Model.Loading
    ErrMsg,        \* Model.ErrMsg
    SelectedID,    \* Model.SelectedID
    Data,          \* Model.Data
    Table,         \* Model.Table: [rows, cursor, focus]
    ListModel,     \* Model.ListModel: index of the highlighted item
    StartDays,     \* Model.StartDays
    EndDays,       \* Model.EndDays
    inflight,      \* commands dispatched whose result message is not yet delivered
    GameFiles,     \* the files the gateway lists for the series of the confirmed row
    DownloadOptions, \* the items of the download-option list
    Config,        \* the credential file config.yaml as viper reads it: [state, api_key]
    last           \* the message Update processed last, and what the runtime did with its command

vars == <<proc, CurrentState, Loading, ErrMsg, SelectedID, Data, Table,
          ListModel, StartDays, EndDays, inflight, GameFiles,
          DownloadOptions, Config, last>>

\* The fields of Model (the application state proper).
appState == <<CurrentState, Loading, ErrMsg, SelectedID, Data, Table,
              ListModel, StartDays, EndDays>>

-----------------------------------------------------------------------------
\* The credential file of a session that has started: it was read and
\* holds a key (config.go:67-71).
SessionConfig == [state |-> "ok", api_key |-> <<"k">>]

-----------------------------------------------------------------------------
\* Bounds of the model.
MaxInput == 2      \* most characters in the two day buffers together
MaxEdges == 3      \* most edges in one gateway result
MaxInFlight == 2   \* most commands outstanding at once
MaxKey == 3        \* most characters in the key typed or stored
MaxFiles == 3      \* most files in one listing of a series

-----------------------------------------------------------------------------
\* State (model.go:56-74).
States == {"SelectGame", "EnterStartDays", "EnterEndDays", "ShowTable",
           "SelectSeries", "Downloading"}

\* The items main.go hands to InitModel (their IDs).
Items == <<"3", "6", "28">>

\* Key events, by tea.KeyMsg.String().  "1x" is a multi-rune key event
\* (pasted text); "x" and "tab" stand for the letters and named keys.
DigitKeys == {"0", "1"}
OtherKeys == {"x", "tab", "1x"}
Keys == {"q", "ctrl+c", "enter", "e", "backspace", "up", "down"}
            \cup DigitKeys \cup OtherKeys

\* The characters of a key string.
KeyChars(key) ==
    CASE key = "1x"  -> <<"1", "x">>
      [] key = "tab" -> <<"t", "a", "b">>
      [] OTHER       -> <<key>>

\* unicode.IsDigit on one character.
IsDigit(c) == c \in {"0", "1", "2", "3", "4", "5", "6", "7", "8", "9"}

-----------------------------------------------------------------------------
\* time.Parse(time.RFC3339, s) on the start-time strings the gateway results
\* of the model carry: the instant in hours since 0001-01-01T00:00:00Z (the
\* zero time.Time, which Parse returns with its error), and whether Parse
\* returned an error.  738915 days separate 0001-01-01 from 2024-05-10.
TimeStrings == {"2024-05-10T10:00:00Z", "2024-05-10T09:00:00-02:00",
                "2024-05-10T12:00:00+02:00", "2024-05-10T08:00:00Z",
                "0000-12-31T23:00:00Z", "TBD"}

ParseRFC3339(s) ==
    CASE s = "2024-05-10T10:00:00Z"      -> [t |-> (738915 * 24) + 10, err |-> FALSE]
      [] s = "2024-05-10T09:00:00-02:00" -> [t |-> (738915 * 24) + 9 + 2, err |-> FALSE]
      [] s = "2024-05-10T12:00:00+02:00" -> [t |-> (738915 * 24) + 12 - 2, err |-> FALSE]
      [] s = "2024-05-10T08:00:00Z"      -> [t |-> (738915 * 24) + 8, err |-> FALSE]
      [] s = "0000-12-31T23:00:00Z"      -> [t |-> 0 - 1, err |-> FALSE]
      [] OTHER                           -> [t |-> 0, err |-> TRUE]

\* The less function handed to sort.SliceStable (model.go:450-454): the
\* parse errors are dropped, the zero time stands for an unparsable string.
RowBefore(ri, rj) == ParseRFC3339(ri[1]).t < ParseRFC3339(rj[1]).t

\* An insertion that puts the row before the rows it is not after.
InsertBeforeEqual(sorted, row) ==
    LET before == {i \in 1..Len(sorted) : RowBefore(sorted[i], row)}
        k == Cardinality(before)
    IN  SubSeq(sorted, 1, k) \o <<row>> \o SubSeq(sorted, k + 1, Len(sorted))

\* sort.SliceStable(rows, less): the one permutation that is ordered by
\* less and keeps the input order of rows neither of which is before the
\* other.  Computed by stable insertion, first row first.
RECURSIVE InsertStable(_, _)
InsertStable(sorted, row) ==
    IF sorted = <<>> THEN <<row>>
    ELSE LET n == Len(sorted) IN
         IF RowBefore(row, sorted[n])
            THEN Append(InsertStable(SubSeq(sorted, 1, n - 1), row), sorted[n])
            ELSE Append(sorted, row)

\* The rows left in the order of the edges (no sort).
Unsorted(rows) == rows

RECURSIVE SortSliceStable(_)
SortSliceStable(rows) ==
    IF rows = <<>> THEN <<>>
    ELSE LET n == Len(rows) IN
         InsertStable(SortSliceStable(SubSeq(rows, 1, n - 1)), rows[n])

-----------------------------------------------------------------------------
\* One edge of a gateway result, as far as handleDataMsg reads it.  defect
\* names what the edge lacks (or holds with another type), "none" for an
\* edge of the shape the query asks for; teams are the baseInfo names.
Defects == {"none", "edge_not_map", "no_node", "no_tournament", "no_teams",
            "no_team_name", "no_start", "no_id", "no_tournament_name"}

Edge(defect, start, id, tournament, teams) ==
    [defect |-> defect, start |-> start, id |-> id,
     tournament |-> tournament, teams |-> teams]

\* The type assertions of model.go:429-431, made before the team count is
\* looked at: each panics on a value that is absent or of another type.
PanicsBeforeTeamCount(edge) ==
    edge.defect \in {"edge_not_map", "no_node", "no_tournament", "no_teams"}

\* The type assertions of model.go:437-443, made only for an edge with two
\* teams or more.
PanicsAfterTeamCount(edge) ==
    edge.defect \in {"no_team_name", "no_start", "no_id", "no_tournament_name"}

\* Whether the loop body of model.go:428-448 panics on this edge.
EdgePanics(edge) ==
    \/ PanicsBeforeTeamCount(edge)
    \/ Len(edge.teams) >= 2 /\ PanicsAfterTeamCount(edge)

\* table.Row built at model.go:440-446.
EdgeRow(edge) ==
    <<edge.start, edge.id, edge.tournament, edge.teams[1], edge.teams[2]>>

\* The loop of model.go:428-448 on edges none of which panics.
RECURSIVE CollectRows(_)
CollectRows(edges) ==
    IF edges = <<>> THEN <<>>
    ELSE LET n    == Len(edges)
             head == CollectRows(SubSeq(edges, 1, n - 1))
         IN  IF Len(edges[n].teams) < 2 THEN head
             ELSE Append(head, EdgeRow(edges[n]))

\* Rows of a result with edges: the loop, then the sort (model.go:427-454).
TransformRows(edges) == SortSliceStable(CollectRows(edges))

\* Whether handleDataMsg panics on the edge list.
AnyEdgePanics(edges) == \E i \in 1..Len(edges) : EdgePanics(edges[i])

-----------------------------------------------------------------------------
\* Go's int and time.Duration are 64 bits wide, past the integers TLC
\* computes with.  A natural number is held as its base-256 digits, the least
\* significant first and the most significant not 0 (<<>> is 0); an int64
\* is held as the eight bytes of its two's complement, least significant
\* first.

\* n * k + carry for a natural number n and small k, carry (k >= 1).
RECURSIVE MulSmall(_, _, _)
MulSmall(n, k, carry) ==
    IF n = <<>>
    THEN IF carry = 0 THEN <<>>
         ELSE <<carry % 256>> \o MulSmall(<<>>, k, carry \div 256)
    ELSE LET v == (n[1] * k) + carry
         IN  <<v % 256>> \o MulSmall(Tail(n), k, v \div 256)

\* The conversion of a natural number to int64: its low 64 bits.
Wrap64(n) == [i \in 1..8 |-> IF i <= Len(n) THEN n[i] ELSE 0]

\* The natural number of eight bytes read as unsigned.
RECURSIVE Trim(_)
Trim(b) ==
    IF b = <<>> \/ b[Len(b)] # 0 THEN b ELSE Trim(SubSeq(b, 1, Len(b) - 1))

Zero64 == Wrap64(<<>>)
MaxInt64 == <<255, 255, 255, 255, 255, 255, 255, 127>>
IsNegative64(b) == b[8] >= 128

\* -x and x * k on int64, wrapping as Go's arithmetic does.
Neg64(b) == Wrap64(MulSmall(Trim([i \in 1..8 |-> 255 - b[i]]), 1, 1))
Mul64(b, k) == Wrap64(MulSmall(Trim(b), k, 0))

\* strconv.Atoi on a buffer, its error dropped (model.go:297-298): 0 for an
\* empty buffer or one that holds a character that is no digit (a syntax
\* error), the largest int for digits whose value is beyond it (a range
\* error), the value of the digits otherwise.  The buffers hold no sign.
DigitVal(c) ==
    CASE c = "0" -> 0 [] c = "1" -> 1 [] c = "2" -> 2 [] c = "3" -> 3
      [] c = "4" -> 4 [] c = "5" -> 5 [] c = "6" -> 6 [] c = "7" -> 7
      [] c = "8" -> 8 [] c = "9" -> 9

RECURSIVE DecimalValue(_)
DecimalValue(s) ==
    IF s = <<>> THEN <<>>
    ELSE MulSmall(DecimalValue(SubSeq(s, 1, Len(s) - 1)), 10, DigitVal(s[Len(s)]))

\* Digits read up to the first character that is no digit.
AtoiPrefix(s) ==
    LET stop == {i \in 1..Len(s) : ~IsDigit(s[i])} \cup {Len(s) + 1}
        k == CHOOSE i \in stop : \A j \in stop : i <= j
    IN  Wrap64(DecimalValue(SubSeq(s, 1, k - 1)))

Atoi(s) ==
    IF s = <<>> \/ \E i \in 1..Len(s) : ~IsDigit(s[i]) THEN Zero64
    ELSE LET n == DecimalValue(s) IN
         IF Len(n) > 8 \/ (Len(n) = 8 /\ n[8] >= 128) THEN MaxInt64
         ELSE Wrap64(n)

\* d * 24 * time.Hour for a time.Duration d (model.go:299-300); time.Hour
\* is 3600 * 1000000 * 1000 nanoseconds.
TimesDay(d) == Mul64(Mul64(Mul64(Mul64(d, 24), 3600), 1000000), 1000)

\* The window of a fetch, as the offsets of its two ends from time.Now()
\* in nanoseconds (model.go:297-300).
StartOffset(startDays) == TimesDay(Neg64(Atoi(startDays)))
EndOffset(endDays) == TimesDay(Atoi(endDays))

-----------------------------------------------------------------------------
\* Messages handed to Update.  type is the Go type the switch of
\* model.go:199 sees: "key" (tea.KeyMsg), "string", "map"
\* (map[string]interface{}).  shape says how deep a map result goes:
\* "nodata" (no "data" map), "noseries" (no "allSeries" map), "noedges" (no
\* "edges" list), "edges".
KeyMsg(key)         == [type |-> "key", text |-> key, shape |-> "", edges |-> <<>>]
StringMsg(text)     == [type |-> "string", text |-> text, shape |-> "", edges |-> <<>>]
MapMsg(shape, edges) == [type |-> "map", text |-> "", shape |-> shape, edges |-> edges]
NoMsg               == [type |-> "none", text |-> "", shape |-> "", edges |-> <<>>]

\* Commands that run off the event loop and deliver one message.
NoCmd ==
    [kind |-> "none", id |-> "", dir |-> "", startTime |-> Zero64, endTime |-> Zero64]
\* A fetch that always asks for the first title of the list.
FetchCmdFirstTitle(titleID, startTime, endTime) ==
    [kind |-> "fetch", id |-> Items[1], dir |-> "",
     startTime |-> startTime, endTime |-> endTime]
FetchCmd(titleID, startTime, endTime) ==
    [kind |-> "fetch", id |-> titleID, dir |-> "",
     startTime |-> startTime, endTime |-> endTime]
DownloadCmd(seriesID, directory) ==
    [kind |-> "download", id |-> seriesID, dir |-> directory,
     startTime |-> Zero64, endTime |-> Zero64]

\* What dialog.Directory().Browse() can return: a directory, or "" (the
\* user cancelled, or the dialog failed: model.go:311 treats both alike).
Dirs == {"/tmp"}
DialogOutcomes == Dirs \cup {""}

-----------------------------------------------------------------------------
\* table.Model of bubbles, as far as the program uses it.
ZeroTable == [rows |-> <<>>, cursor |-> 0, focus |-> FALSE]

\* table.New(WithRows(rows), WithFocused(true), ...) (model.go:464-470).
NewTable(rows) == [rows |-> rows, cursor |-> 0, focus |-> TRUE]

Min(a, b) == IF a < b THEN a ELSE b
Max(a, b) == IF a > b THEN a ELSE b
clamp(v, low, high) == Min(Max(v, low), high)

\* Table.Update on an "up" / "down" key (model.go:268): MoveUp(1) /
\* MoveDown(1) of a focused table, nothing otherwise.  cursor is 0-based.
TableUpdate(t, key) ==
    IF ~t.focus THEN t
    ELSE IF key = "up"
         THEN [t EXCEPT !.cursor = clamp(t.cursor - 1, 0, Len(t.rows) - 1)]
         ELSE [t EXCEPT !.cursor = clamp(t.cursor + 1, 0, Len(t.rows) - 1)]

\* The first row of a table, wherever the cursor is.
FirstRow(t) == t.rows[1]

\* Table.SelectedRow() has a row exactly when the cursor is on one;
\* otherwise it is nil (or the call itself indexes out of range).
HasSelectedRow(t) == t.cursor >= 0 /\ t.cursor < Len(t.rows)
SelectedRow(t) == t.rows[t.cursor + 1]

\* The id of the first item, wherever the list cursor is.
FirstItem(cursor) == Items[1]

\* ListModel.SelectedItem().(Item).ID (model.go:288-289).
SelectedItem(cursor) == Items[cursor]

\* ListModel.Update on an "up" / "down" key (model.go:266): the cursor
\* moves within the items (1-based here), without wrapping.
ListUpdate(cursor, key) ==
    IF key = "up" THEN Max(cursor - 1, 1) ELSE Min(cursor + 1, Len(Items))

-----------------------------------------------------------------------------
-----------------------------------------------------------------------------
\* Files.  What a call did to the file system and the console: the
\* function called, the file it created or truncated (the pieces of its
\* path, <<>> for none), the records that reached the file, the line
\* printed, the error returned ("" for nil or for no result), the line
\* read from standard input, and what the call found outside the program
\* (<<>> if that plays no part).
NoIO == [call |-> "none", path |-> <<>>, records |-> <<>>, printed |-> "",
         err |-> "", read |-> <<>>, found |-> <<>>]

\* filepath.Ext on the file names and paths of the model: the suffix from
\* the last dot on.
Ext(fileName) ==
    CASE fileName = "events.jsonl"    -> ".jsonl"
      [] fileName = "game1.rofl"      -> ".rofl"
      [] fileName = "game2.rofl"      -> ".rofl"
      [] fileName = "replay.rofl.zip" -> ".zip"
      [] fileName = "rofl"            -> ""
      [] fileName = "games"           -> ""
      [] fileName = "games.csv"       -> ".csv"
      [] fileName = "/ro/games.csv"   -> ".csv"
      [] fileName = "/full/games"     -> ""

\* What dialog.File().Title(...).Save() can return besides "" (cancelled,
\* or an error: export.go:92 treats both alike).  /ro is a directory the
\* user may not write to, /full a volume with no space left.
SavePaths == {"games", "games.csv", "/ro/games.csv", "/full/games"}
SaveOutcomes == SavePaths \cup {""}

\* filePath += ".csv" (export.go:98).
WithCsv(filePath) ==
    CASE filePath = "games"       -> "games.csv"
      [] filePath = "/full/games" -> "/full/games.csv"

\* os.Create fails on the first, the Flush of the csv.Writer on the second.
CreateFails(filePath) == filePath = "/ro/games.csv"
FlushFails(filePath) == filePath = "/full/games.csv"

headers == <<"Start Time", "Serie ID", "Tournament", "Blue Team", "Red Team">>

\* An export that leaves the header out.
ExportDataNoHeader(data, save) ==
    [call |-> "ExportData", path |-> <<save>>,
     records |-> [i \in 1..Len(data) |-> SubSeq(data[i], 1, 5)],
     printed |-> "Data successfully exported", err |-> "",
     read |-> <<>>, found |-> <<>>]

\* export.ExportData (export.go:90-126) on rows of five fields; save is
\* what the save dialog returned.  The records pass through the buffer of
\* the csv.Writer, which the deferred Flush writes out; the error of the
\* Flush is not looked at.
ExportData(data, save) ==
    LET io == [NoIO EXCEPT !.call = "ExportData"] IN
    IF save = ""
    THEN [io EXCEPT !.printed = "File save canceled or error occurred."]
    ELSE LET filePath == IF Ext(save) # ".csv" THEN WithCsv(save) ELSE save IN
         IF CreateFails(filePath)
         THEN [io EXCEPT !.printed = "Error creating file"]
         ELSE IF FlushFails(filePath)
         THEN [io EXCEPT !.path = <<filePath>>,
                         !.printed = "Data successfully exported"]
         ELSE [io EXCEPT !.path = <<filePath>>,
                         !.records = <<headers>> \o
                             [i \in 1..Len(data) |-> SubSeq(data[i], 1, 5)],
                         !.printed = "Data successfully exported"]

\* What graphql.DownloadJSON meets: the status of the response, the state
\* of the directory, and whether the body arrives whole.
DownloadWorlds ==
    [status : {"200", "404"}, dir : {"exists", "missing", "readonly"},
     body : {"whole", "cut"}]

\* The downloads of the session specification: one that succeeds, one the
\* server refuses, one whose body breaks off.
SessionWorlds ==
    {[status |-> "200", dir |-> "exists", body |-> "whole"],
     [status |-> "404", dir |-> "exists", body |-> "whole"],
     [status |-> "200", dir |-> "exists", body |-> "cut"]}

\* A download that creates the file before it looks at the response.
DownloadJSONCreatesFirst(serieID, directory, world) ==
    [NoIO EXCEPT !.call = "DownloadJSON", !.found = <<world>>,
                 !.path = <<directory, "/", serieID, ".zip">>,
                 !.err = IF world.status # "200"
                         THEN "erro: codigo de status 404" ELSE ""]

\* graphql.DownloadJSON (graphql.go:154-193); errors by their text, accents
\* dropped.
DownloadJSON(serieID, directory, world) ==
    LET io == [NoIO EXCEPT !.call = "DownloadJSON", !.found = <<world>>]
        filePath == <<directory, "/", serieID, ".zip">>
    IN  IF world.status # "200"
        THEN [io EXCEPT !.err = "erro: codigo de status 404"]
        ELSE IF world.dir = "missing"
        THEN [io EXCEPT !.err = "o diretorio nao existe"]
        ELSE IF world.dir = "readonly"
        THEN [io EXCEPT !.err = "erro ao criar o arquivo"]
        ELSE IF world.body = "cut"
        THEN [io EXCEPT !.path = filePath, !.records = <<"cut">>,
                        !.err = "erro ao salvar o ZIP no arquivo"]
        ELSE [io EXCEPT !.path = filePath, !.records = <<"whole">>]

\* The Model value Update is called on.
M == [CurrentState |-> CurrentState, Loading |-> Loading, ErrMsg |-> ErrMsg,
      SelectedID |-> SelectedID, Data |-> Data, Table |-> Table,
      ListModel |-> ListModel, StartDays |-> StartDays, EndDays |-> EndDays]

\* What one call of Update comes to: the Model returned, the command
\* returned ("none", or the fetch / download it wraps), how the call ended
\* ("ok", "quit": tea.Quit was returned, "panic"), and what the directory
\* dialog, if opened, returned ("none" if it was not opened), and what the
\* call did to files (NoIO if it touched none), and the widget whose Update
\* the call passed the message to ("list", "table" or "none").
Ret(m, cmd) ==
    [m |-> m, cmd |-> cmd, status |-> "ok", dialog |-> "none", io |-> NoIO, widget |-> "none"]
RetDialog(m, cmd, d) ==
    [m |-> m, cmd |-> cmd, status |-> "ok", dialog |-> d, io |-> NoIO, widget |-> "none"]
RetIO(m, d, io) ==
    [m |-> m, cmd |-> NoCmd, status |-> "ok", dialog |-> d, io |-> io, widget |-> "none"]
RetWidget(m, widget) ==
    [m |-> m, cmd |-> NoCmd, status |-> "ok", dialog |-> "none", io |-> NoIO,
     widget |-> widget]
RetIgnored(m) == Ret(m, NoCmd)
RetQuit(m) ==
    [m |-> m, cmd |-> NoCmd, status |-> "quit", dialog |-> "none", io |-> NoIO, widget |-> "none"]
RetPanic(m) ==
    [m |-> m, cmd |-> NoCmd, status |-> "panic", dialog |-> "none", io |-> NoIO, widget |-> "none"]

\* An Enter that, past the start screen, sets loading and dispatches the
\* fetch without leaving the screen.
handleEnterKeyStays(m, dlg) ==
    CASE m.CurrentState = "SelectGame" ->
            Ret([m EXCEPT !.SelectedID = SelectedItem(m.ListModel),
                          !.CurrentState = "EnterStartDays"], NoCmd)
      [] m.CurrentState = "EnterStartDays" ->
            Ret([m EXCEPT !.CurrentState = "EnterEndDays"], NoCmd)
      [] OTHER ->
            Ret([m EXCEPT !.Loading = TRUE],
                FetchCmd(m.SelectedID, StartOffset(m.StartDays), EndOffset(m.EndDays)))

\* handleEnterKey (model.go:286-333); dlg is what the directory dialog
\* returns if the call opens it.
handleEnterKey(m, dlg) ==
    CASE m.CurrentState = "SelectGame" ->
            Ret([m EXCEPT !.SelectedID = SelectedItem(m.ListModel),
                          !.CurrentState = "EnterStartDays"], NoCmd)
      [] m.CurrentState = "EnterStartDays" ->
            Ret([m EXCEPT !.CurrentState = "EnterEndDays"], NoCmd)
      [] m.CurrentState = "EnterEndDays" ->
            Ret([m EXCEPT !.Loading = TRUE, !.CurrentState = "ShowTable"],
                FetchCmd(m.SelectedID, StartOffset(m.StartDays), EndOffset(m.EndDays)))
      [] m.CurrentState = "ShowTable" ->
            IF ~HasSelectedRow(m.Table) THEN RetPanic(m)
            ELSE LET id == SelectedRow(m.Table)[2] IN
                 IF dlg = ""
                 THEN RetDialog([m EXCEPT !.SelectedID = id, !.Loading = FALSE,
                                          !.CurrentState = "ShowTable"], NoCmd, dlg)
                 ELSE RetDialog([m EXCEPT !.SelectedID = id, !.Loading = TRUE,
                                          !.CurrentState = "Downloading"],
                                DownloadCmd(id, dlg), dlg)
      [] m.CurrentState = "Downloading" ->
            Ret([m EXCEPT !.Loading = FALSE, !.CurrentState = "ShowTable"], NoCmd)
      [] m.CurrentState = "SelectSeries" ->
            IF dlg = ""
            THEN RetDialog([m EXCEPT !.Loading = FALSE,
                                     !.CurrentState = "ShowTable"], NoCmd, dlg)
            ELSE RetDialog([m EXCEPT !.Loading = TRUE],
                           DownloadCmd(m.SelectedID, dlg), dlg)

\* A backspace that always edits the start buffer.
handleBackspaceKeyStart(m) ==
    IF Len(m.StartDays) > 0
    THEN Ret([m EXCEPT !.StartDays = SubSeq(m.StartDays, 1, Len(m.StartDays) - 1)], NoCmd)
    ELSE Ret(m, NoCmd)

\* handleBackspaceKey (model.go:343-350).
handleBackspaceKey(m) ==
    IF m.CurrentState = "EnterStartDays" /\ Len(m.StartDays) > 0
    THEN Ret([m EXCEPT !.StartDays = SubSeq(m.StartDays, 1, Len(m.StartDays) - 1)], NoCmd)
    ELSE IF m.CurrentState = "EnterEndDays" /\ Len(m.EndDays) > 0
    THEN Ret([m EXCEPT !.EndDays = SubSeq(m.EndDays, 1, Len(m.EndDays) - 1)], NoCmd)
    ELSE Ret(m, NoCmd)

\* handleDefaultKey (model.go:363-374): the first rune decides, the whole
\* key string is appended.
handleDefaultKey(m, key) ==
    IF ~IsDigit(KeyChars(key)[1]) THEN Ret(m, NoCmd)
    ELSE IF m.CurrentState = "EnterStartDays"
    THEN Ret([m EXCEPT !.StartDays = m.StartDays \o KeyChars(key)], NoCmd)
    ELSE IF m.CurrentState = "EnterEndDays"
    THEN Ret([m EXCEPT !.EndDays = m.EndDays \o KeyChars(key)], NoCmd)
    ELSE Ret(m, NoCmd)

\* A key handler that routes "up" and "down" to no widget while loading.
handleKeyMsgLoadedNav(m, key, dlg) ==
    CASE key \in {"q", "ctrl+c"} -> RetQuit(m)
      [] key = "enter"     -> handleEnterKey(m, dlg)
      [] key = "e"         ->
            IF m.CurrentState = "ShowTable"
            THEN RetIO(m, dlg, ExportData(m.Data, dlg))
            ELSE Ret(m, NoCmd)
      [] key = "backspace" -> handleBackspaceKey(m)
      [] key \in {"up", "down"} ->
            IF m.Loading THEN Ret(m, NoCmd)
            ELSE IF m.CurrentState = "SelectGame"
            THEN RetWidget([m EXCEPT !.ListModel = ListUpdate(m.ListModel, key)], "list")
            ELSE IF m.CurrentState = "ShowTable"
            THEN RetWidget([m EXCEPT !.Table = TableUpdate(m.Table, key)], "table")
            ELSE Ret(m, NoCmd)
      [] OTHER -> handleDefaultKey(m, key)

\* handleKeyMsg (model.go:249-276).  The "e" key calls export.ExportData
\* with m.Data in ShowTable, which writes a file and leaves the Model as
\* it is; dlg is then what the save dialog returns.
handleKeyMsg(m, key, dlg) ==
    CASE key \in {"q", "ctrl+c"} -> RetQuit(m)
      [] key = "enter"     -> handleEnterKey(m, dlg)
      [] key = "e"         ->
            IF m.CurrentState = "ShowTable"
            THEN RetIO(m, dlg, ExportData(m.Data, dlg))
            ELSE Ret(m, NoCmd)
      [] key = "backspace" -> handleBackspaceKey(m)
      [] key \in {"up", "down"} ->
            IF m.CurrentState = "SelectGame"
            THEN RetWidget([m EXCEPT !.ListModel = ListUpdate(m.ListModel, key)], "list")
            ELSE IF m.CurrentState = "ShowTable"
            THEN RetWidget([m EXCEPT !.Table = TableUpdate(m.Table, key)], "table")
            ELSE Ret(m, NoCmd)
      [] OTHER -> handleDefaultKey(m, key)

\* handleDataMsg (model.go:406-487).
\* A transformer that reports every missing level as missing data.
handleDataMsgOneError(m, msg) ==
    IF msg.shape # "edges"
    THEN Ret([m EXCEPT !.ErrMsg = "No data found", !.Loading = FALSE], NoCmd)
    ELSE IF AnyEdgePanics(msg.edges) THEN RetPanic(m)
    ELSE LET rows == TransformRows(msg.edges) IN
         Ret([m EXCEPT !.ErrMsg = "", !.Loading = FALSE,
                       !.Table = NewTable(rows), !.Data = rows], NoCmd)

handleDataMsg(m, msg) ==
    LET m0 == [m EXCEPT !.ErrMsg = "", !.Loading = FALSE] IN
    CASE msg.shape = "nodata"   -> Ret([m0 EXCEPT !.ErrMsg = "No data found"], NoCmd)
      [] msg.shape = "noseries" -> Ret([m0 EXCEPT !.ErrMsg = "No series found"], NoCmd)
      [] msg.shape = "noedges"  -> Ret([m0 EXCEPT !.ErrMsg = "No edges found"], NoCmd)
      [] OTHER ->
            IF AnyEdgePanics(msg.edges) THEN RetPanic(m)
            ELSE LET rows == TransformRows(msg.edges) IN
                 Ret([m0 EXCEPT !.Table = NewTable(rows), !.Data = rows], NoCmd)

\* A string case that shows the table again and leaves the loading flag as
\* it is.
handleStringMsgStillLoading(m, msg) ==
    IF msg.text = "Download complete"
    THEN Ret([m EXCEPT !.CurrentState = "ShowTable"], NoCmd)
    ELSE Ret([m EXCEPT !.ErrMsg = msg.text], NoCmd)

\* A string case that starts over at the list of games after a download.
handleStringMsgStartsOver(m, msg) ==
    IF msg.text = "Download complete"
    THEN Ret([m EXCEPT !.CurrentState = "SelectGame", !.Loading = FALSE], NoCmd)
    ELSE Ret([m EXCEPT !.ErrMsg = msg.text], NoCmd)

\* The string case of Update (model.go:206-214).
handleStringMsg(m, msg) ==
    IF msg.text = "Download complete"
    THEN Ret([m EXCEPT !.CurrentState = "ShowTable", !.Loading = FALSE], NoCmd)
    ELSE Ret([m EXCEPT !.ErrMsg = msg.text], NoCmd)

\* Update (model.go:196-235) on the three kinds of message that carry
\* state; dlg as for handleEnterKey.
Update(m, msg, dlg) ==
    CASE msg.type = "key"    -> handleKeyMsg(m, msg.text, dlg)
      [] msg.type = "map"    -> handleDataMsg(m, msg)
      [] msg.type = "string" -> handleStringMsg(m, msg)

-----------------------------------------------------------------------------
\* The text View returns, as the sequence of its parts: a widget's own view
\* is <<"list", cursor>> or <<"table", table>>, the spinner frame is
\* "spinner", and the characters of a day buffer follow their prompt.
\* BaseStyle.Render only frames the text.

\* The switch of View (model.go:501-521): the view of the screen.
ScreenView(m) ==
    CASE m.CurrentState = "SelectGame" -> <<"list", m.ListModel>>
      [] m.CurrentState = "EnterStartDays" ->
            <<"Enter the number of past days to include (e.g., 10): ">>
                \o m.StartDays
      [] m.CurrentState = "EnterEndDays" ->
            <<"Enter the number of future days to include (e.g., 1): ">>
                \o m.EndDays
      [] m.CurrentState = "ShowTable" ->
            IF m.Loading
            THEN <<"spinner", "Loading data, please wait...">>
            ELSE <<"table", m.Table,
                   "Press 'e' to export data, or press Enter to select a series.">>
      [] m.CurrentState = "Downloading" ->
            IF m.Loading
            THEN <<"spinner", "Downloading data, please wait...">>
            ELSE <<"table", m.Table>>
      [] m.CurrentState = "SelectSeries" ->
            <<"Press Enter to download the selected series.">>
      [] OTHER -> <<>>

\* A view that shows the spinner text of a loading screen before the error.
ViewLoadingFirst(m) ==
    IF m.Loading \/ m.ErrMsg = "" THEN ScreenView(m) ELSE <<m.ErrMsg>>

\* Model.View (model.go:497-522).
View(m) == IF m.ErrMsg # "" THEN <<m.ErrMsg>> ELSE ScreenView(m)

-----------------------------------------------------------------------------
\* Gateway results.  graphql.FetchData returns an error (fetchDataCmd turns
\* it into a string message) or the decoded JSON body, whatever it holds.
FetchErrors == {"error sending request to server", "error decoding JSON response"}

EdgeA == Edge("none", "2024-05-10T10:00:00Z", "s1", "LCK", <<"T1", "GEN">>)
EdgeB == Edge("none", "2024-05-10T09:00:00-02:00", "s2", "LEC", <<"G2", "FNC">>)
EdgeC == Edge("none", "TBD", "s3", "LCK", <<"T1", "GEN", "KT">>)
EdgeD == Edge("none", "2024-05-10T08:00:00Z", "s4", "LEC", <<"G2">>)
EdgeE == Edge("none", "2024-05-10T12:00:00+02:00", "s5", "LPL", <<"BLG", "TES">>)
EdgeF == Edge("no_id", "2024-05-10T08:00:00Z", "", "LEC", <<"G2">>)
EdgeG == Edge("no_node", "", "", "", <<>>)
EdgeH == Edge("no_tournament_name", "2024-05-10T10:00:00Z", "s6", "", <<"T1", "GEN">>)

EdgeI == Edge("none", "0000-12-31T23:00:00Z", "s7", "LPL", <<"BLG", "TES">>)

\* Edges of the shape the query asks for, and all edges of the model.
WellFormedEdges == {EdgeA, EdgeB, EdgeC, EdgeD, EdgeE, EdgeI}
EdgeSet == WellFormedEdges \cup {EdgeF, EdgeG, EdgeH}

SeqsUpTo(S, n) == UNION {[1..k -> S] : k \in 0..n}

\* Every message a fetch can deliver, over EdgeSet.
AllResults ==
    {StringMsg(e) : e \in FetchErrors}
        \cup {MapMsg(sh, <<>>) : sh \in {"nodata", "noseries", "noedges"}}
        \cup {MapMsg("edges", es) : es \in SeqsUpTo(EdgeSet, MaxEdges)}

\* The messages a fetch delivers in the session specification: one of each
\* outcome handleDataMsg and Update tell apart.
SessionResults ==
    {StringMsg("error sending request to server"),
     MapMsg("nodata", <<>>), MapMsg("noseries", <<>>), MapMsg("noedges", <<>>),
     MapMsg("edges", <<>>), MapMsg("edges", <<EdgeB, EdgeA>>),
     MapMsg("edges", <<EdgeD>>), MapMsg("edges", <<EdgeA, EdgeG>>)}

\* What graphql.DownloadJSON returns (graphql.go:154-193): "" for nil, or
\* the error's text (accents dropped).
DownloadErrors == {"erro: codigo de status 404", "o diretorio nao existe",
                   "erro ao criar o arquivo", "erro ao salvar o ZIP no arquivo"}

\* downloadDataCmd (model.go:177-182): the message the command delivers
\* when DownloadJSON returned gatewayErr.
downloadDataCmd(gatewayErr) == StringMsg("Download complete")

\* fetchDataCmd (model.go:155-163): the message is the error's text or the
\* result itself.
fetchDataCmd(outcome) == outcome

-----------------------------------------------------------------------------
\* InitModel (model.go:108-129) on the items of main.go; nothing is
\* outstanding and no message has been processed.
NoEvent == [op |-> "init", msg |-> NoMsg, gateway |-> "", dialog |-> "none",
            cmd |-> NoCmd, done |-> NoCmd, io |-> NoIO, widget |-> "none"]

Init ==
    /\ proc = "running"
    /\ CurrentState = "SelectGame"
    /\ Loading = FALSE
    /\ ErrMsg = ""
    /\ SelectedID = ""
    /\ Data = <<>>
    /\ Table = ZeroTable
    /\ ListModel = 1
    /\ StartDays = <<>>
    /\ EndDays = <<>>
    /\ inflight = EmptyBag
    /\ GameFiles = <<>>
    /\ DownloadOptions = <<>>
    /\ Config = SessionConfig
    /\ last = NoEvent

\* The event loop applies what Update returned: the Model replaces the old
\* one, the command (if any) is started, tea.Quit ends the program; a panic
\* ends it with the Model lost.  done is the command whose message this
\* was (NoCmd for a key).
Step(r, op, msg, gateway, done) ==
    /\ r.cmd # NoCmd => BagCardinality(inflight) < MaxInFlight
    /\ proc' = CASE r.status = "ok"    -> "running"
                 [] r.status = "quit"  -> "quit"
                 [] r.status = "panic" -> "crashed"
    /\ CurrentState' = r.m.CurrentState
    /\ Loading' = r.m.Loading
    /\ ErrMsg' = r.m.ErrMsg
    /\ SelectedID' = r.m.SelectedID
    /\ Data' = r.m.Data
    /\ Table' = r.m.Table
    /\ ListModel' = r.m.ListModel
    /\ StartDays' = r.m.StartDays
    /\ EndDays' = r.m.EndDays
    /\ inflight' = LET rest == IF done = NoCmd THEN inflight
                               ELSE inflight (-) SetToBag({done})
                   IN  IF r.cmd = NoCmd THEN rest ELSE rest (+) SetToBag({r.cmd})
    /\ UNCHANGED <<GameFiles, DownloadOptions, Config>>
    /\ last' = [op |-> op, msg |-> msg, gateway |-> gateway,
                dialog |-> r.dialog, cmd |-> r.cmd, done |-> done, io |-> r.io,
                widget |-> r.widget]

\* The total length of the day buffers stays within the bound.
WithinInput(r) == Len(r.m.StartDays) + Len(r.m.EndDays) <= MaxInput

\* A key event reaches Update.
Key(key, dlg) ==
    LET r == Update(M, KeyMsg(key), dlg) IN
    /\ WithinInput(r)
    /\ Step(r, "key", KeyMsg(key), "", NoCmd)

KeyQuit ==
    /\ proc = "running"
    /\ \E key \in {"q", "ctrl+c"} : Key(key, "")

KeyEnter ==
    /\ proc = "running"
    /\ \E dlg \in DialogOutcomes : Key("enter", dlg)

\* What the save dialog returns in the session specification: cancelled,
\* a path without the extension, a path os.Create fails on.
SessionSaves == {"", "games", "/ro/games.csv"}

KeyExport(saves) ==
    /\ proc = "running"
    /\ \E save \in saves : Key("e", save)

KeyBackspace ==
    /\ proc = "running"
    /\ Key("backspace", "")

KeyUpDown ==
    /\ proc = "running"
    /\ \E key \in {"up", "down"} : Key(key, "")

KeyDefault ==
    /\ proc = "running"
    /\ \E key \in DigitKeys \cup OtherKeys : Key(key, "")

\* The message of an outstanding fetch reaches Update.
DeliverFetch(results) ==
    /\ proc = "running"
    /\ \E cmd \in BagToSet(inflight) :
          /\ cmd.kind = "fetch"
          /\ \E outcome \in results :
                LET msg == fetchDataCmd(outcome) IN
                Step(Update(M, msg, ""), "fetchResult", msg, "", cmd)

\* The message of an outstanding download reaches Update; gatewayErr is
\* what DownloadJSON returned to the command.
DeliverDownload(worlds) ==
    /\ proc = "running"
    /\ \E cmd \in BagToSet(inflight) :
          /\ cmd.kind = "download"
          /\ \E world \in worlds :
                LET io == DownloadJSON(cmd.id, cmd.dir, world)
                    msg == downloadDataCmd(io.err)
                IN  Step([Update(M, msg, "") EXCEPT !.io = io],
                         "downloadResult", msg, io.err, cmd)

Next ==
    \/ KeyQuit
    \/ KeyEnter
    \/ KeyExport(SessionSaves)
    \/ KeyBackspace
    \/ KeyUpDown
    \/ KeyDefault
    \/ DeliverFetch(SessionResults)
    \/ DeliverDownload(SessionWorlds)

Spec == Init /\ [][Next]_vars

-----------------------------------------------------------------------------
\* The result transformer on every gateway result of the model: the
\* program waits in ShowTable for the fetch it dispatched for the first
\* title with both day buffers left empty (Enter, Enter, Enter from Init),
\* the result arrives, and the user moves in the table or quits.
TransformInit ==
    /\ proc = "running"
    /\ CurrentState = "ShowTable"
    /\ Loading = TRUE
    /\ ErrMsg = ""
    /\ SelectedID = Items[1]
    /\ Data = <<>>
    /\ Table = ZeroTable
    /\ ListModel = 1
    /\ StartDays = <<>>
    /\ EndDays = <<>>
    /\ inflight = SetToBag({FetchCmd(Items[1], Zero64, Zero64)})
    /\ GameFiles = <<>>
    /\ DownloadOptions = <<>>
    /\ Config = SessionConfig
    /\ last = [op |-> "key", msg |-> KeyMsg("enter"), gateway |-> "",
               dialog |-> "none", cmd |-> FetchCmd(Items[1], Zero64, Zero64), done |-> NoCmd,
               io |-> NoIO, widget |-> "none"]

TransformNext ==
    \/ DeliverFetch(AllResults)
    \/ KeyUpDown
    \/ KeyQuit

SpecTransform == TransformInit /\ [][TransformNext]_vars

-----------------------------------------------------------------------------
\* The window arithmetic on its own: the program stands at EnterEndDays
\* with digits typed into both buffers, and Enter is pressed.  The day
\* counts run from 0 up to the digits of the largest int and the number
\* after it; 106751 is the last count of days whose nanoseconds an int64
\* holds.
DayInputs ==
    {<<"0">>,
     <<"1">>,
     <<"1", "0">>,
     <<"3", "6", "5">>,
     <<"1", "0", "6", "7", "5", "1">>,
     <<"1", "0", "6", "7", "5", "2">>,
     <<"9", "2", "2", "3", "3", "7", "2", "0", "3", "6", "8", "5", "4", "7", "7", "5", "8", "0", "7">>,
     <<"9", "2", "2", "3", "3", "7", "2", "0", "3", "6", "8", "5", "4", "7", "7", "5", "8", "0", "8">>}

WindowInit ==
    /\ proc = "running"
    /\ CurrentState = "EnterEndDays"
    /\ Loading = FALSE
    /\ ErrMsg = ""
    /\ SelectedID = Items[1]
    /\ Data = <<>>
    /\ Table = ZeroTable
    /\ ListModel = 1
    /\ StartDays \in DayInputs
    /\ EndDays \in DayInputs
    /\ inflight = EmptyBag
    /\ GameFiles = <<>>
    /\ DownloadOptions = <<>>
    /\ Config = SessionConfig
    /\ last = [op |-> "key", msg |-> KeyMsg(EndDays[Len(EndDays)]), gateway |-> "",
               dialog |-> "none", cmd |-> NoCmd, done |-> NoCmd, io |-> NoIO, widget |-> "none"]

\* Enter reaches Update at EnterEndDays.
ConfirmWindow ==
    /\ proc = "running"
    /\ CurrentState = "EnterEndDays"
    /\ Step(Update(M, KeyMsg("enter"), ""), "key", KeyMsg("enter"), "", NoCmd)

WindowNext == ConfirmWindow

SpecWindow == WindowInit /\ [][WindowNext]_vars

-----------------------------------------------------------------------------
\* The download options.  graphql.FetchGameList (graphql.go:274-319) is the
\* list_files of the gateway; the Model that calls it and keeps the option
\* list is not among the sources, and is taken from the specification: a
\* row has been confirmed, the listing of its series arrives, the options
\* are the archive (if the listing has the manifest) and one 'Download
\* Game N' for each replay file, and the screen is SelectDownloadOption.

\* The file names of the listings of the model.
FileNames == {"events.jsonl", "game1.rofl", "game2.rofl", "replay.rofl.zip", "rofl"}

\* The entries of result.Files (graphql.go:298-303).
File(id, fileName) == [id |-> id, fileName |-> fileName]
FileSet ==
    {File("events-grid", "events.jsonl"), File("replay-1", "game1.rofl"),
     File("events-grid", "game2.rofl"), File("state-grid", "replay.rofl.zip"),
     File("replay-2", "rofl")}

\* A listing that counts every file as a replay.
FetchGameListAllFiles(files) ==
    [roflCount |-> Len(files),
     hasJSON |-> \E i \in 1..Len(files) : files[i].id = "events-grid"]

\* FetchGameList on a decoded 200 response (graphql.go:309-318).
FetchGameList(files) ==
    [roflCount |-> Cardinality({i \in 1..Len(files) : Ext(files[i].fileName) = ".rofl"}),
     hasJSON |-> \E i \in 1..Len(files) : files[i].id = "events-grid"]

\* The items of the option list: the archive, and 'Download Game n'.
ArchiveOption == [kind |-> "archive", game |-> 0]
GameOption(n) == [kind |-> "game", game |-> n]
BuildOptions(roflCount, hasJSON) ==
    (IF hasJSON THEN <<ArchiveOption>> ELSE <<>>)
        \o [n \in 1..roflCount |-> GameOption(n)]

OptionsInit ==
    /\ proc = "running"
    /\ CurrentState = "ShowTable"
    /\ Loading = FALSE
    /\ ErrMsg = ""
    /\ SelectedID = EdgeA.id
    /\ Data = TransformRows(<<EdgeA>>)
    /\ Table = NewTable(Data)
    /\ ListModel = 1
    /\ StartDays = <<>>
    /\ EndDays = <<>>
    /\ inflight = EmptyBag
    /\ GameFiles \in SeqsUpTo(FileSet, MaxFiles)
    /\ DownloadOptions = <<>>
    /\ Config = SessionConfig
    /\ last = [op |-> "key", msg |-> KeyMsg("enter"), gateway |-> "",
               dialog |-> "none", cmd |-> NoCmd, done |-> NoCmd, io |-> NoIO, widget |-> "none"]

\* The listing of the series arrives.
ListFilesResult ==
    /\ proc = "running"
    /\ CurrentState = "ShowTable"
    /\ LET res == FetchGameList(GameFiles)
       IN  DownloadOptions' = BuildOptions(res.roflCount, res.hasJSON)
    /\ CurrentState' = "SelectDownloadOption"
    /\ last' = [op |-> "listFilesResult", msg |-> NoMsg, gateway |-> "",
                dialog |-> "none", cmd |-> NoCmd, done |-> NoCmd, io |-> NoIO, widget |-> "none"]
    /\ UNCHANGED <<proc, Loading, ErrMsg, SelectedID, Data, Table, ListModel,
                   StartDays, EndDays, inflight, GameFiles, Config>>

OptionsNext == ListFilesResult

SpecOptions == OptionsInit /\ [][OptionsNext]_vars

-----------------------------------------------------------------------------
\* The export on its own: the table is loaded with the rows of a result of
\* well-formed edges, and 'e' is pressed; the save dialog returns any of
\* its outcomes.
ExportInit ==
    /\ proc = "running"
    /\ CurrentState = "ShowTable"
    /\ Loading = FALSE
    /\ ErrMsg = ""
    /\ SelectedID = Items[1]
    /\ \E edges \in SeqsUpTo(WellFormedEdges, MaxEdges) :
          /\ Data = TransformRows(edges)
          /\ last = [op |-> "fetchResult", msg |-> MapMsg("edges", edges),
                     gateway |-> "", dialog |-> "none", cmd |-> NoCmd,
                     done |-> FetchCmd(Items[1], Zero64, Zero64), io |-> NoIO, widget |-> "none"]
    /\ Table = NewTable(Data)
    /\ ListModel = 1
    /\ StartDays = <<>>
    /\ EndDays = <<>>
    /\ inflight = EmptyBag
    /\ GameFiles = <<>>
    /\ DownloadOptions = <<>>
    /\ Config = SessionConfig

ExportNext == KeyExport(SaveOutcomes)

SpecExport == ExportInit /\ [][ExportNext]_vars

-----------------------------------------------------------------------------
\* The confirmation of a row on its own: the table is loaded as for the
\* export; the user moves the cursor and presses Enter, and the directory
\* dialog returns one of two directories or is cancelled.
AllDirs == {"/tmp", "/home/u/replays"}

KeyEnterIn(dirs) ==
    /\ proc = "running"
    /\ \E dlg \in dirs \cup {""} : Key("enter", dlg)

ConfirmInit == ExportInit

ConfirmNext ==
    \/ KeyUpDown
    \/ KeyEnterIn(AllDirs)

SpecConfirm == ConfirmInit /\ [][ConfirmNext]_vars

-----------------------------------------------------------------------------
\* The download on its own: Enter was pressed on a row of the loaded table
\* and a directory chosen; the download is outstanding and meets any of
\* DownloadWorlds.
DownloadInit ==
    /\ proc = "running"
    /\ CurrentState = "Downloading"
    /\ Loading = TRUE
    /\ ErrMsg = ""
    /\ \E edges \in SeqsUpTo(WellFormedEdges, MaxEdges) : Data = TransformRows(edges)
    /\ Data # <<>>
    /\ \E cursor \in 0..(Len(Data) - 1) : Table = [NewTable(Data) EXCEPT !.cursor = cursor]
    /\ SelectedID = SelectedRow(Table)[2]
    /\ ListModel = 1
    /\ StartDays = <<>>
    /\ EndDays = <<>>
    /\ inflight = SetToBag({DownloadCmd(SelectedID, "/tmp")})
    /\ GameFiles = <<>>
    /\ DownloadOptions = <<>>
    /\ Config = SessionConfig
    /\ last = [NoEvent EXCEPT !.op = "key", !.msg = KeyMsg("enter"),
                              !.dialog = "/tmp",
                              !.cmd = DownloadCmd(SelectedID, "/tmp")]

DownloadNext == DeliverDownload(DownloadWorlds)

SpecDownload == DownloadInit /\ [][DownloadNext]_vars

-----------------------------------------------------------------------------
\* The program left alone while loading: a fetch or a download has just
\* been dispatched, the user presses no key, and the runtime delivers the
\* message of every command it runs (a goroutine per command, which ends
\* when the request does).
QuietInit == TransformInit \/ DownloadInit

QuietNext ==
    \/ DeliverFetch(AllResults)
    \/ DeliverDownload(DownloadWorlds)

SpecQuiet ==
    /\ QuietInit
    /\ [][QuietNext]_vars
    /\ WF_vars(DeliverFetch(AllResults))
    /\ WF_vars(DeliverDownload(DownloadWorlds))

-----------------------------------------------------------------------------
\* Startup (main.go:14-19, config.go:43-73).  The key and the line typed
\* are sequences of characters; " " stands for any white space.
KeyAlphabet == {"k", "x", " "}
Lines == SeqsUpTo(KeyAlphabet, MaxKey)

\* strings.TrimSpace (config.go:57, 79).
RECURSIVE TrimLeft(_)
TrimLeft(s) == IF s # <<>> /\ s[1] = " " THEN TrimLeft(Tail(s)) ELSE s

RECURSIVE TrimRight(_)
TrimRight(s) ==
    IF s # <<>> /\ s[Len(s)] = " " THEN TrimRight(SubSeq(s, 1, Len(s) - 1)) ELSE s

TrimSpace(s) == TrimRight(TrimLeft(s))

\* What the program can find at startup: no home or configuration
\* directory to be had (getConfigPath fails), no config.yaml, one that
\* viper cannot read, or one that is read, with the api_key it holds
\* (empty if it holds none).
ConfigStates ==
    {[state |-> st, api_key |-> <<>>] : st \in {"nopath", "absent", "unreadable"}}
        \cup {[state |-> "ok", api_key |-> k] : k \in Lines}

\* InitConfig (config.go:43-73) on the file found, with the line standard
\* input holds and whether config.yaml can be written: the file afterwards
\* and what the call did.
InitConfig(file, line, writable) ==
    LET io == [NoIO EXCEPT !.call = "InitConfig"] IN
    IF file.state = "nopath"
    THEN [file |-> file,
          io |-> [io EXCEPT !.err = "error getting configuration file path"]]
    ELSE IF file.state # "ok"
    THEN LET apiKey == TrimSpace(line)
             asked == [io EXCEPT !.printed = "Enter the API key: ", !.read = line]
         IN  IF ~writable
             THEN [file |-> file,
                   io |-> [asked EXCEPT !.err = "error saving configuration"]]
             ELSE [file |-> [state |-> "ok", api_key |-> apiKey],
                   io |-> [asked EXCEPT !.path = <<"config.yaml">>,
                                        !.records = <<apiKey>>]]
    ELSE IF file.api_key = <<>>
    THEN [file |-> file, io |-> [io EXCEPT !.err = "API key is not set up correctly"]]
    ELSE [file |-> file, io |-> io]

\* GetAPIKey (config.go:78-80): the key the gateway sends.
GetAPIKey(file) == TrimSpace(file.api_key)

StartupInit ==
    /\ proc = "startup"
    /\ Config \in ConfigStates
    /\ CurrentState = "SelectGame"
    /\ Loading = FALSE
    /\ ErrMsg = ""
    /\ SelectedID = ""
    /\ Data = <<>>
    /\ Table = ZeroTable
    /\ ListModel = 1
    /\ StartDays = <<>>
    /\ EndDays = <<>>
    /\ inflight = EmptyBag
    /\ GameFiles = <<>>
    /\ DownloadOptions = <<>>
    /\ last = NoEvent

\* main (main.go:14-19): InitConfig runs; an error ends the process with
\* os.Exit(1), otherwise the session starts.
Startup ==
    /\ proc = "startup"
    /\ \E line \in Lines, writable \in BOOLEAN :
          LET r == InitConfig(Config, line, writable) IN
          /\ Config' = r.file
          /\ proc' = IF r.io.err # "" THEN "exited" ELSE "running"
          /\ last' = [NoEvent EXCEPT !.op = "InitConfig", !.io = r.io]
    /\ UNCHANGED <<CurrentState, Loading, ErrMsg, SelectedID, Data, Table,
                   ListModel, StartDays, EndDays, inflight, GameFiles,
                   DownloadOptions>>

StartupNext == Startup

SpecStartup == StartupInit /\ [][StartupNext]_vars

-----------------------------------------------------------------------------
\* Claims.  last is the event of the step that led to the current state, so
\* a predicate on last and the other variables speaks of the state right
\* after that event, and an action formula with last' of the step that
\* processes it.

QuitKeys == {"q", "ctrl+c"}

\* C1: while loading=true every key event other than quit leaves the
\* application state unchanged, dispatches no command and keeps the program
\* running.
C1_KeysIgnoredWhileLoading ==
    [][(Loading /\ last'.op = "key" /\ last'.msg.text \notin QuitKeys)
          => (UNCHANGED appState /\ inflight' = inflight /\ proc' = "running")]_vars

\* C2: at most one fetch or download is outstanding at any time.
C2_AtMostOneOutstanding == BagCardinality(inflight) <= 1

\* C3: while a dispatched fetch or download has not delivered its result,
\* loading is true.
C3_OutstandingImpliesLoading ==
    (proc = "running" /\ inflight # EmptyBag) => Loading

\* C4: after the result message of a failed fetch has been processed,
\* error_message is the error text, loading is false and the screen is
\* ShowTable.
C4_FetchErrorHandled ==
    (last.op = "fetchResult" /\ last.msg.type = "string")
        => (ErrMsg = last.msg.text /\ ~Loading /\ CurrentState = "ShowTable")

\* C5: processing the result of a download that failed in the gateway
\* leads to ShowTable with loading=false and error_message the reported
\* reason, the rows and the table unchanged.
C5_DownloadErrorSurfaced ==
    [][(last'.op = "downloadResult" /\ last'.gateway # "")
          => (/\ CurrentState' = "ShowTable"
              /\ ~Loading'
              /\ ErrMsg' = last'.gateway
              /\ UNCHANGED <<Data, Table>>)]_vars

\* A download's completion message is awaited exactly when the screen is
\* Downloading, loading is true and the download is the one of the series
\* selected last.
AwaitsDownload(cmd) ==
    CurrentState = "Downloading" /\ Loading /\ cmd.id = SelectedID

\* C6: a completion message that arrives when the state no longer waits
\* for it changes neither screen, loading, rows nor error_message.
C6_StaleCompletionIgnored ==
    [][(last'.op = "downloadResult" /\ ~AwaitsDownload(last'.done))
          => UNCHANGED <<CurrentState, Loading, Data, Table, ErrMsg>>]_vars

\* C7: processing a gateway search result never crashes the process:
\* after it the program runs, and has rows or an error message to show.
C7_ResultNeverCrashes ==
    (last.op = "fetchResult" /\ last.msg.type = "map")
        => (proc = "running" /\ (ErrMsg # "" \/ Table.rows = Data))

\* Enter is pressed and a fetch for the selected title and the window of
\* the day buffers is dispatched.
RetryFetch ==
    /\ KeyEnter
    /\ last'.cmd.kind = "fetch"
    /\ last'.cmd.id = SelectedID
    /\ last'.cmd.startTime = StartOffset(StartDays)
    /\ last'.cmd.endTime = EndOffset(EndDays)

\* C8: whenever the error of a failed fetch is shown, Enter can be pressed
\* and dispatches a new fetch for the same title and window.
C8_FetchErrorRetryable ==
    (proc = "running" /\ ErrMsg \in FetchErrors) => ENABLED RetryFetch

\* The edges of a result that have two teams or more (their positions).
TwoTeamEdges(edges) == {i \in 1..Len(edges) : Len(edges[i].teams) >= 2}

\* C9: processing a fetch result with the data / allSeries / edges levels
\* replaces the rows (Data and the table) by the transformed rows, clears
\* error_message, sets loading=false and stays in ShowTable; with a level
\* missing it sets error_message and loading=false and leaves the rows.
C9_FetchResultProcessed ==
    [][(last'.op = "fetchResult" /\ last'.msg.type = "map")
          => IF last'.msg.shape = "edges"
             THEN /\ proc' = "running"
                  /\ CurrentState' = "ShowTable"
                  /\ ~Loading'
                  /\ ErrMsg' = ""
                  /\ Table'.rows = Data'
                  /\ Len(Data') = Cardinality(TwoTeamEdges(last'.msg.edges))
             ELSE /\ proc' = "running"
                  /\ CurrentState' = "ShowTable"
                  /\ ~Loading'
                  /\ ErrMsg' # ""
                  /\ UNCHANGED <<Data, Table>>]_vars

\* The row the claim expects for an edge: start time, series id,
\* tournament name, first two team names.
C10_RowOf(edge) ==
    <<edge.start, edge.id, edge.tournament, edge.teams[1], edge.teams[2]>>

\* How often a value occurs in a sequence.
Occurrences(seq, x) == Cardinality({i \in 1..Len(seq) : seq[i] = x})

\* A well-formed result: the three levels, and edges of the shape the
\* query asks for.
WellFormedResult(msg) ==
    /\ msg.type = "map"
    /\ msg.shape = "edges"
    /\ \A i \in 1..Len(msg.edges) : msg.edges[i] \in WellFormedEdges

\* C10: for a well-formed result with N edges of which M have two teams or
\* more, the rows are exactly the M rows of those edges (one per edge), in
\* non-decreasing order of parsed start time.
C10_RowsPerEdgeSorted ==
    (last.op = "fetchResult" /\ WellFormedResult(last.msg))
        => LET edges == last.msg.edges
               two   == TwoTeamEdges(edges)
           IN  /\ proc = "running"
               /\ Len(Data) = Cardinality(two)
               /\ \A i \in two :
                     Occurrences(Data, C10_RowOf(edges[i]))
                        = Cardinality({j \in two : C10_RowOf(edges[j]) = C10_RowOf(edges[i])})
               /\ \A i, j \in 1..Len(Data) :
                     i < j => ParseRFC3339(Data[i][1]).t <= ParseRFC3339(Data[j][1]).t

\* C10 witness: a well-formed result of three edges, one of them with a
\* single team, whose two rows come out in the opposite order of their
\* edges.
C10_Witness ==
    /\ last.op = "fetchResult"
    /\ WellFormedResult(last.msg)
    /\ Len(last.msg.edges) = 3
    /\ Cardinality(TwoTeamEdges(last.msg.edges)) = 2
    /\ Len(Data) = 2
    /\ \E i, j \in TwoTeamEdges(last.msg.edges) :
          i < j /\ Data[1] = C10_RowOf(last.msg.edges[j])
                /\ Data[2] = C10_RowOf(last.msg.edges[i])


\* The error the claim names for each level a result can lack.
C11_LevelError(shape) ==
    CASE shape = "nodata"   -> "No data found"
      [] shape = "noseries" -> "No series found"
      [] shape = "noedges"  -> "No edges found"

\* C11: a result that lacks data, or has data without allSeries, or
\* allSeries without edges, fails at that level with the error of that
\* level ('No data found', 'No series found', 'No edges found'), and no
\* rows are produced: the rows and the table are left as they were.
C11_MissingLevelErrors ==
    [][(/\ last'.op = "fetchResult"
        /\ last'.msg.type = "map"
        /\ last'.msg.shape \in {"nodata", "noseries", "noedges"})
          => (/\ ErrMsg' = C11_LevelError(last'.msg.shape)
              /\ UNCHANGED <<Data, Table>>
              /\ proc' = "running")]_vars

\* C11 witness: a result with data but no allSeries has been reported as
\* 'No series found' and there are no rows.
C11_Witness ==
    /\ last.op = "fetchResult"
    /\ last.msg.type = "map"
    /\ last.msg.shape = "noseries"
    /\ ErrMsg = "No series found"
    /\ Data = <<>>

\* The rows of a sequence whose start time parses to the instant t (the
\* zero instant for a string that does not parse).
C12_RowsAt(rows, t) == SelectSeq(rows, LAMBDA r : ParseRFC3339(r[1]).t = t)

\* The rows of the edges with two teams or more, in the order of the edges.
C12_RowsInEdgeOrder(edges) ==
    LET kept == SelectSeq(edges, LAMBDA e : Len(e.teams) >= 2)
    IN  [i \in 1..Len(kept) |-> C10_RowOf(kept[i])]

\* Rows with equal parsed time keep their relative order from the result.
C12_EqualTimesKeepOrder ==
    \A t \in {ParseRFC3339(s).t : s \in TimeStrings} :
        C12_RowsAt(Data, t) = C12_RowsAt(C12_RowsInEdgeOrder(last.msg.edges), t)

\* C12 as stated: for a well-formed result, every row whose start time does
\* not parse comes before every row whose start time parses, and rows with
\* equal parsed time keep their relative order from the result.
C12_UnparsableFirstStable ==
    (last.op = "fetchResult" /\ WellFormedResult(last.msg))
        => /\ \A i, j \in 1..Len(Data) :
                 (ParseRFC3339(Data[i][1]).err /\ ~ParseRFC3339(Data[j][1]).err)
                     => i < j
           /\ C12_EqualTimesKeepOrder

\* C12 amended: a row whose start time does not parse is ordered as a row
\* at the zero time 0001-01-01T00:00:00Z: it comes before every row whose
\* parsed start time is later than that instant (a row with an earlier
\* parsable time comes before it), and rows with equal parsed time, the
\* zero time for the unparsable ones, keep their relative order from the
\* result.
C12_UnparsableAtZeroTimeStable ==
    (last.op = "fetchResult" /\ WellFormedResult(last.msg))
        => /\ \A i, j \in 1..Len(Data) :
                 (/\ ParseRFC3339(Data[i][1]).err
                  /\ ~ParseRFC3339(Data[j][1]).err
                  /\ ParseRFC3339(Data[j][1]).t > 0)
                     => i < j
           /\ \A i, j \in 1..Len(Data) :
                 (/\ ParseRFC3339(Data[i][1]).err
                  /\ ~ParseRFC3339(Data[j][1]).err
                  /\ ParseRFC3339(Data[j][1]).t < 0)
                     => j < i
           /\ C12_EqualTimesKeepOrder

\* C12 witness: a result whose last edge has an unparsable start time and
\* whose first two edges start at the same instant, written in two time
\* zones; the unparsable row is first and the two others follow in the
\* order of their edges.
C12_Witness ==
    /\ last.op = "fetchResult"
    /\ last.msg = MapMsg("edges", <<EdgeE, EdgeA, EdgeC>>)
    /\ Data = <<C10_RowOf(EdgeC), C10_RowOf(EdgeE), C10_RowOf(EdgeA)>>

\* The two day-entry states, and the buffer each of them edits.
DayEntryStates == {"EnterStartDays", "EnterEndDays"}
ActiveBuffer(state, startDays, endDays) ==
    IF state = "EnterStartDays" THEN startDays ELSE endDays

DigitsOnly(buf) == \A i \in 1..Len(buf) : IsDigit(buf[i])

\* C13: in a day-entry state a digit key appends its digit to the buffer of
\* the state and a backspace removes the last character of that buffer
\* (none of an empty one), so that digits followed by k backspaces leave
\* the typed digits less the last min(k, length); and after every step both
\* buffers consist solely of digit characters.
C13_BuffersHoldTypedDigits ==
    [][(last'.op = "key" /\ CurrentState \in DayEntryStates)
          => LET key == last'.msg.text
                 buf == ActiveBuffer(CurrentState, StartDays, EndDays)
                 new == ActiveBuffer(CurrentState, StartDays', EndDays')
             IN  /\ (Len(KeyChars(key)) = 1 /\ IsDigit(key)) => new = Append(buf, key)
                 /\ key = "backspace"
                       => new = SubSeq(buf, 1, Len(buf) - Min(1, Len(buf)))
                 /\ DigitsOnly(StartDays') /\ DigitsOnly(EndDays')]_vars

\* Keys with a meaning of their own in the day-entry states.
C14_MeaningfulKeys ==
    {k \in Keys : Len(KeyChars(k)) = 1 /\ IsDigit(k)}
        \cup {"backspace", "enter"} \cup QuitKeys

\* C14: in the day-entry states a key event that is not a single digit,
\* backspace, Enter or quit leaves both buffers and the screen unchanged.
C14_OtherKeysIgnored ==
    [][(/\ last'.op = "key"
        /\ CurrentState \in DayEntryStates
        /\ last'.msg.text \notin C14_MeaningfulKeys)
          => UNCHANGED <<StartDays, EndDays, CurrentState>>]_vars

\* A buffer strconv.Atoi rejects: empty, or with a character that is no
\* digit.
C15_NotNumeric(buf) == buf = <<>> \/ ~DigitsOnly(buf)

\* C15: in every state at EnterEndDays, whatever the two buffers hold,
\* Enter advances to ShowTable with loading=true, dispatches the fetch and
\* sets no error; an empty or non-numeric buffer counts as 0 days, so that
\* end of the window is time.Now().
C15_ConfirmAlwaysFetches ==
    (proc = "running" /\ CurrentState = "EnterEndDays")
        => LET r == Update(M, KeyMsg("enter"), "") IN
           /\ r.status = "ok"
           /\ r.m.CurrentState = "ShowTable"
           /\ r.m.Loading
           /\ r.m.ErrMsg = ErrMsg
           /\ r.cmd.kind = "fetch"
           /\ C15_NotNumeric(StartDays) => r.cmd.startTime = Zero64
           /\ C15_NotNumeric(EndDays) => r.cmd.endTime = Zero64

\* C15 witness: Enter was pressed in EnterEndDays with a non-numeric start
\* buffer and an empty end buffer; the fetch is out with both ends of its
\* window at time.Now().
C15_Witness ==
    /\ last.op = "key"
    /\ last.msg.text = "enter"
    /\ CurrentState = "ShowTable"
    /\ Loading
    /\ StartDays = <<"1", "x">>
    /\ EndDays = <<>>
    /\ last.cmd = FetchCmd(SelectedID, Zero64, Zero64)
    /\ BagIn(last.cmd, inflight)

\* C16: on the way from SelectGame, Enter records the highlighted title and
\* goes to EnterStartDays, Enter there goes to EnterEndDays, digits change
\* no screen, and a key dispatches a fetch exactly when it is Enter in
\* EnterEndDays: that step reaches ShowTable with loading=true and its
\* fetch, for the highlighted title, is the only command outstanding.
C16_SequenceFetchesOnce ==
    [][last'.op = "key"
          => LET key == last'.msg.text IN
             /\ (key = "enter" /\ CurrentState = "SelectGame")
                   => /\ CurrentState' = "EnterStartDays"
                      /\ SelectedID' = Items[ListModel]
                      /\ ListModel' = ListModel
             /\ (key = "enter" /\ CurrentState = "EnterStartDays")
                   => CurrentState' = "EnterEndDays"
             /\ (key \in DigitKeys /\ CurrentState \in DayEntryStates)
                   => UNCHANGED <<CurrentState, SelectedID, ListModel>>
             /\ (last'.cmd.kind = "fetch")
                   <=> (key = "enter" /\ CurrentState = "EnterEndDays")
             /\ (last'.cmd.kind = "fetch")
                   => /\ CurrentState' = "ShowTable"
                      /\ Loading'
                      /\ last'.cmd.id = Items[ListModel]
                      /\ inflight' = SetToBag({last'.cmd})]_vars

\* C16 witness: with the second title highlighted, Enter, "1", Enter, "1",
\* Enter were typed; the table screen is loading and the one fetch, for
\* that title and one day each way, is outstanding.
C16_Witness ==
    /\ last.op = "key"
    /\ last.msg.text = "enter"
    /\ CurrentState = "ShowTable"
    /\ Loading
    /\ ListModel = 2
    /\ StartDays = <<"1">>
    /\ EndDays = <<"1">>
    /\ last.cmd.kind = "fetch"
    /\ last.cmd.id = "6"
    /\ ~IsNegative64(last.cmd.endTime) /\ last.cmd.endTime # Zero64
    /\ IsNegative64(last.cmd.startTime)
    /\ inflight = SetToBag({last.cmd})

\* The nanoseconds of a count of days given by its digits, as a natural
\* number (no width).
C17_DayNanoseconds(buf) ==
    MulSmall(MulSmall(MulSmall(MulSmall(DecimalValue(buf), 24, 0), 3600, 0),
                      1000000, 0), 1000, 0)

\* An int64 as sign and magnitude.
C17_Signed(b) ==
    IF IsNegative64(b) THEN [neg |-> TRUE, mag |-> Trim(Neg64(b))]
    ELSE [neg |-> FALSE, mag |-> Trim(b)]

\* C17: for digit-only buffers the fetch dispatched by Enter in EnterEndDays
\* has start_time = now - start_days*24h and end_time = now + end_days*24h
\* for the integers typed, so start_time <= now <= end_time, large day
\* counts included.
C17_WindowIsDaysTyped ==
    (/\ last.op = "key"
     /\ last.cmd.kind = "fetch"
     /\ StartDays # <<>> /\ DigitsOnly(StartDays)
     /\ EndDays # <<>> /\ DigitsOnly(EndDays))
        => /\ C17_Signed(last.cmd.startTime)
                 = [neg |-> C17_DayNanoseconds(StartDays) # <<>>,
                    mag |-> C17_DayNanoseconds(StartDays)]
           /\ C17_Signed(last.cmd.endTime)
                 = [neg |-> FALSE, mag |-> C17_DayNanoseconds(EndDays)]
           /\ IsNegative64(last.cmd.startTime) \/ last.cmd.startTime = Zero64
           /\ ~IsNegative64(last.cmd.endTime)

\* C18: in every state of the running program, whatever the screen,
\* loading and error_message are, Update answers 'q' and ctrl+c with the
\* quit command and a Model none of whose fields has changed.
C18_QuitKeysQuit ==
    proc = "running"
        => \A key \in QuitKeys :
              LET r == Update(M, KeyMsg(key), "") IN
              r.status = "quit" /\ r.m = M /\ r.cmd = NoCmd

\* C18 witness: ctrl+c ended the program while it was loading with an
\* error shown, and left the table screen as it was.
C18_Witness ==
    /\ proc = "quit"
    /\ CurrentState = "ShowTable"
    /\ last.op = "key"
    /\ last.msg.text = "ctrl+c"
    /\ Loading
    /\ ErrMsg # ""

\* Enter reaches Update at ShowTable with the cursor on a row (the step
\* is last' and the primed variables).
C19_RowConfirmed ==
    /\ last'.op = "key"
    /\ last'.msg.text = "enter"
    /\ CurrentState = "ShowTable"
    /\ Table.cursor >= 0 /\ Table.cursor < Len(Table.rows)

\* C19 as stated: confirming a row in ShowTable(loaded) records the row's
\* series id, dispatches the list-files request and advances to
\* SelectDownloadOption, and a download is dispatched only by a confirm in
\* SelectDownloadOption.
C19_RowConfirmListsFiles ==
    [][/\ (C19_RowConfirmed /\ ~Loading)
             => /\ SelectedID' = Table.rows[Table.cursor + 1][2]
                /\ CurrentState' = "SelectDownloadOption"
                /\ last'.cmd.kind = "listFiles"
       /\ last'.cmd.kind = "download"
             => CurrentState = "SelectDownloadOption"]_vars

\* C19 amended: confirming a row in ShowTable records the row's series id
\* and opens the directory dialog; with a directory chosen the screen
\* advances to Downloading with loading=true and the archive download of
\* that series into that directory is dispatched by this very step; with
\* the dialog cancelled the screen stays ShowTable with loading=false and
\* nothing is dispatched.  No list-files request is made and there is no
\* SelectDownloadOption screen.
C19_RowConfirmDownloads ==
    [][/\ C19_RowConfirmed
             => /\ SelectedID' = Table.rows[Table.cursor + 1][2]
                /\ last'.dialog \in DialogOutcomes
                /\ last'.dialog = ""
                      => /\ CurrentState' = "ShowTable"
                         /\ ~Loading'
                         /\ last'.cmd = NoCmd
                /\ last'.dialog # ""
                      => /\ CurrentState' = "Downloading"
                         /\ Loading'
                         /\ last'.cmd.kind = "download"
                         /\ last'.cmd.id = Table.rows[Table.cursor + 1][2]
                         /\ last'.cmd.dir = last'.dialog
       /\ last'.cmd.kind = "download" => C19_RowConfirmed
       /\ last'.cmd.kind \in {"none", "fetch", "download"}
       /\ CurrentState' \in States]_vars

\* C19 witness: the second row of a loaded table was confirmed and a
\* directory chosen; the program is in Downloading, loading, with the
\* download of that row's series outstanding.
C19_Witness ==
    /\ last.op = "key"
    /\ last.msg.text = "enter"
    /\ last.dialog \in Dirs
    /\ CurrentState = "Downloading"
    /\ Loading
    /\ Table.cursor = 1
    /\ SelectedID = Table.rows[2][2]
    /\ last.cmd.kind = "download"
    /\ last.cmd.id = SelectedID
    /\ BagIn(last.cmd, inflight)

C21_ExportOnlyWhenLoaded ==
    [][(last'.op = "key" /\ last'.msg.text = "e")
          => /\ (last'.io.call = "ExportData")
                   <=> (CurrentState = "ShowTable" /\ ~Loading)
             /\ UNCHANGED <<CurrentState, Loading, Data, StartDays, EndDays,
                            SelectedID, ListModel>>]_vars

\* The export of the last step went through: 'e' called the Export Writer,
\* the dialog gave a path, the file was created and the records flushed.
C22_Exported ==
    /\ last.op = "key"
    /\ last.msg.text = "e"
    /\ last.io.call = "ExportData"
    /\ last.dialog \in SavePaths
    /\ last.io.path # <<>>
    /\ ~FlushFails(last.io.path[1])

\* C22: a successful export of n rows writes exactly n+1 records: the
\* header record first, then one record per row in the order of the rows,
\* with the five fields of the row unchanged.
C22_HeaderThenRows ==
    C22_Exported
        => /\ Len(last.io.records) = Len(Data) + 1
           /\ last.io.records[1]
                 = <<"Start Time", "Serie ID", "Tournament", "Blue Team", "Red Team">>
           /\ \A i \in 1..Len(Data) :
                 /\ Len(Data[i]) = 5
                 /\ last.io.records[i + 1] = Data[i]

\* C22 witness: three rows were exported to the path "games"; the file
\* games.csv holds four records.
C22_Witness ==
    /\ C22_Exported
    /\ last.dialog = "games"
    /\ last.io.path = <<"games.csv">>
    /\ Len(Data) = 3
    /\ Len(last.io.records) = 4
    /\ last.io.records[4] = Data[3]

\* C23: when the export of a loaded table cannot create its file, the
\* failure is put in the error message of the application state (and the session goes on).
C23_ExportFailureSurfaced ==
    (/\ last.op = "key"
     /\ last.io.call = "ExportData"
     /\ ~Loading
     /\ last.io.printed = "Error creating file")
        => /\ ErrMsg = "Error creating file"
           /\ proc = "running"

\* C24: Enter on a row of the loaded table, with the directory dialog
\* cancelled, is a no-op: screen, loading, rows, table, inputs, selected
\* ids and error message are what they were, and no download is dispatched.
C24_CancelIsNoOp ==
    [][(/\ last'.op = "key"
        /\ last'.msg.text = "enter"
        /\ CurrentState = "ShowTable"
        /\ ~Loading
        /\ last'.dialog = "")
          => /\ UNCHANGED <<CurrentState, Loading, ErrMsg, SelectedID, Data, Table,
                            ListModel, StartDays, EndDays, inflight>>
             /\ last'.cmd = NoCmd]_vars

\* C26: an "up" or "down" key goes to the list exactly in SelectGame and to
\* the table exactly in ShowTable, to neither of them on the other screens
\* (the day-entry screens among them), whatever the loading flag is; it
\* changes nothing else.
C26_NavigationByScreen ==
    [][(last'.op = "key" /\ last'.msg.text \in {"up", "down"})
          => /\ last'.widget = CASE CurrentState = "SelectGame" -> "list"
                                  [] CurrentState = "ShowTable"  -> "table"
                                  [] OTHER                       -> "none"
             /\ ListModel' = IF CurrentState = "SelectGame"
                             THEN ListUpdate(ListModel, last'.msg.text)
                             ELSE ListModel
             /\ Table' = IF CurrentState = "ShowTable"
                         THEN TableUpdate(Table, last'.msg.text)
                         ELSE Table
             /\ UNCHANGED <<CurrentState, Loading, ErrMsg, SelectedID, Data,
                            StartDays, EndDays, inflight>>]_vars

\* C26 witness: "down" was pressed in ShowTable while loading, and the
\* table was given it.
C26_Witness ==
    /\ last.op = "key"
    /\ last.msg.text = "down"
    /\ CurrentState = "ShowTable"
    /\ Loading
    /\ last.widget = "table"

\* C27: the selected title id is written only by Enter in SelectGame; once
\* written it keeps its value (Enter on a row of the table does not change
\* it).
C27_TitleIdSetOnce ==
    [][SelectedID' # SelectedID
          => /\ last'.op = "key"
             /\ last'.msg.text = "enter"
             /\ CurrentState = "SelectGame"
             /\ SelectedID = ""]_vars

\* C28: the message "Download complete", processed in Downloading, sets
\* loading to false and the screen to ShowTable and leaves the rows, the
\* table, both day inputs and the error message as they were.
C28_DownloadCompleteFrame ==
    [][(/\ last'.op = "downloadResult"
        /\ last'.msg = StringMsg("Download complete")
        /\ CurrentState = "Downloading")
          => /\ Loading' = FALSE
             /\ CurrentState' = "ShowTable"
             /\ UNCHANGED <<Data, Table, StartDays, EndDays, ErrMsg>>]_vars

\* C28 witness: the message of a download has just been processed; the
\* table of two rows is shown, not loading, with the cursor on its second
\* row.
C28_Witness ==
    /\ last.op = "downloadResult"
    /\ last.msg = StringMsg("Download complete")
    /\ last.done.kind = "download"
    /\ CurrentState = "ShowTable"
    /\ ~Loading
    /\ Len(Data) = 2
    /\ Table.cursor = 1

\* C29: at startup, with config.yaml absent or read with an empty api_key
\* (and the file writable), the program asks for the key on standard input,
\* stores the key typed and starts the session; it does not exit.
C29_PromptsWhenAbsentOrEmpty ==
    [][(/\ proc = "startup"
        /\ \/ Config.state = "absent"
           \/ Config.state = "ok" /\ Config.api_key = <<>>
        /\ last'.io.err # "error saving configuration")
          => /\ last'.io.printed = "Enter the API key: "
             /\ Config' = [state |-> "ok", api_key |-> TrimSpace(last'.io.read)]
             /\ last'.io.records = <<Config'.api_key>>
             /\ proc' = "running"]_vars

\* The path of the archive of the download delivered last.
C30_ZipPath == <<last.done.dir, "/", last.done.id, ".zip">>

\* C30 as stated: when the server answers 200 and the directory exists,
\* the one file <series_id>.zip is created in it and nil is returned; when
\* the server answers another status or the directory does not exist, an
\* error is returned and no file is created.
C30_ArchiveCases ==
    last.io.call = "DownloadJSON"
        => LET world == last.io.found[1] IN
           /\ (world.status = "200" /\ world.dir # "missing")
                 => (last.io.path = C30_ZipPath /\ last.io.err = "")
           /\ (world.status # "200" \/ world.dir = "missing")
                 => (last.io.path = <<>> /\ last.io.err # "")

\* C30 amended: the file is created and nil returned when the server
\* answers 200, the directory exists, the file can be created in it and the
\* body is copied whole.  Another status, a missing directory or a file
\* that cannot be created give an error and no file; a body that breaks
\* off gives an error and leaves the file, created, with a part of it.
C30_ArchiveCasesWithIO ==
    last.io.call = "DownloadJSON"
        => LET world == last.io.found[1] IN
           /\ (world.status = "200" /\ world.dir = "exists" /\ world.body = "whole")
                 => /\ last.io.path = C30_ZipPath
                    /\ last.io.records = <<"whole">>
                    /\ last.io.err = ""
           /\ (world.status # "200" \/ world.dir \in {"missing", "readonly"})
                 => (last.io.path = <<>> /\ last.io.err # "")
           /\ (world.status = "200" /\ world.dir = "exists" /\ world.body = "cut")
                 => /\ last.io.path = C30_ZipPath
                    /\ last.io.records = <<"cut">>
                    /\ last.io.err = "erro ao salvar o ZIP no arquivo"

\* C30 witness: the download of series s1 into /tmp, answered with 200
\* and a whole body, created /tmp/s1.zip and returned nil.
C30_Witness ==
    /\ last.op = "downloadResult"
    /\ last.io.call = "DownloadJSON"
    /\ last.io.found = <<[status |-> "200", dir |-> "exists", body |-> "whole"]>>
    /\ last.io.path = <<"/tmp", "/", "s1", ".zip">>
    /\ last.io.err = ""

\* C31: Enter in SelectGame records the id of the highlighted item as the
\* selected id and moves to EnterStartDays; Enter in EnterStartDays moves
\* to EnterEndDays; neither sets loading, dispatches a command or changes
\* the day buffers.
C31_ConfirmAdvances ==
    [][(/\ last'.op = "key"
        /\ last'.msg.text = "enter"
        /\ CurrentState \in {"SelectGame", "EnterStartDays"})
          => /\ CurrentState = "SelectGame"
                   => /\ SelectedID' = Items[ListModel]
                      /\ CurrentState' = "EnterStartDays"
             /\ CurrentState = "EnterStartDays"
                   => /\ CurrentState' = "EnterEndDays"
                      /\ SelectedID' = SelectedID
             /\ Loading' = FALSE
             /\ last'.cmd = NoCmd
             /\ UNCHANGED <<StartDays, EndDays, inflight, ListModel>>]_vars

\* C31 witness: the third item was highlighted and confirmed, a digit
\* typed, and Enter has just moved the screen to EnterEndDays.
C31_Witness ==
    /\ last.op = "key"
    /\ last.msg.text = "enter"
    /\ CurrentState = "EnterEndDays"
    /\ SelectedID = Items[3]
    /\ StartDays # <<>>
    /\ ~Loading

\* C32: a download dispatched from ShowTable is for the series id in
\* column 1 of the row the table cursor is on when Enter is pressed (where
\* "up" and "down" have put it), into the directory the dialog returned.
C32_DownloadOfHighlightedRow ==
    [][(last'.cmd.kind = "download" /\ CurrentState = "ShowTable")
          => /\ last'.op = "key"
             /\ last'.msg.text = "enter"
             /\ Table.cursor \in 0..(Len(Data) - 1)
             /\ last'.cmd.id = Data[Table.cursor + 1][2]
             /\ last'.dialog \in AllDirs
             /\ last'.cmd.dir = last'.dialog]_vars

\* C32 witness: in a table of three series the cursor was moved to the
\* third row, and its download into /home/u/replays has just been
\* dispatched.
C32_Witness ==
    /\ last.op = "key"
    /\ last.msg.text = "enter"
    /\ Len(Data) = 3
    /\ Table.cursor = 2
    /\ Data[3][2] # Data[1][2]
    /\ last.cmd = DownloadCmd(Data[3][2], "/home/u/replays")
    /\ last.cmd \in BagToSet(inflight)

\* C33: with a non-empty error message the view is exactly the error
\* string, on every screen and loading or not; with an empty one it is the
\* view of the screen: the list, the prompt and the digits typed, the
\* table, or the spinner text when loading in ShowTable or Downloading.
C33_ErrorOverridesView ==
    /\ ErrMsg # "" => View(M) = <<ErrMsg>>
    /\ ErrMsg = ""
          => /\ CurrentState = "SelectGame" => View(M) = <<"list", ListModel>>
             /\ CurrentState = "EnterStartDays"
                   => /\ Len(View(M)) = 1 + Len(StartDays)
                      /\ SubSeq(View(M), 2, Len(View(M))) = StartDays
             /\ CurrentState = "EnterEndDays"
                   => /\ Len(View(M)) = 1 + Len(EndDays)
                      /\ SubSeq(View(M), 2, Len(View(M))) = EndDays
             /\ (CurrentState \in {"ShowTable", "Downloading"} /\ Loading)
                   => (Len(View(M)) = 2 /\ View(M)[1] = "spinner")
             /\ (CurrentState \in {"ShowTable", "Downloading"} /\ ~Loading)
                   => (View(M)[1] = "table" /\ View(M)[2] = Table)

\* C33 witness: the fetch failed with a transport error, which leaves
\* loading true; the view is the error, not the spinner.
C33_Witness ==
    /\ proc = "running"
    /\ CurrentState = "ShowTable"
    /\ Loading
    /\ ErrMsg = "error sending request to server"
    /\ View(M) = <<"error sending request to server">>

\* C34: a key changes the start buffer only in EnterStartDays and the end
\* buffer only in EnterEndDays; so in EnterEndDays the start buffer stays,
\* and on the other screens no key changes either buffer.
C34_BuffersEditedOnTheirScreen ==
    [][last'.op = "key"
          => /\ StartDays' # StartDays => CurrentState = "EnterStartDays"
             /\ EndDays' # EndDays => CurrentState = "EnterEndDays"]_vars

\* C34 witness: a digit was typed on each day screen and backspace has
\* just emptied the end buffer in EnterEndDays; the start buffer still
\* holds its digit.
C34_Witness ==
    /\ last.op = "key"
    /\ last.msg.text = "backspace"
    /\ CurrentState = "EnterEndDays"
    /\ StartDays = <<"1">>
    /\ EndDays = <<>>

\* C35: whenever loading is true the screen is ShowTable or Downloading;
\* it is never true in SelectGame, EnterStartDays or EnterEndDays.
C35_LoadingOnlyOnResultScreens ==
    Loading => CurrentState \in {"ShowTable", "Downloading"}

\* C35 witness: loading in Downloading, the download of a row outstanding.
C35_Witness ==
    /\ Loading
    /\ CurrentState = "Downloading"
    /\ \E cmd \in BagToSet(inflight) : cmd.kind = "download"

\* The place of a screen in the order of the session; ShowTable and
\* Downloading are the last stage together.
C36_Stage(screen) ==
    CASE screen = "SelectGame"     -> 1
      [] screen = "EnterStartDays" -> 2
      [] screen = "EnterEndDays"   -> 3
      [] screen \in {"ShowTable", "Downloading"} -> 4
      [] OTHER -> 0

\* C36: the screen only moves forward: no step takes it to an earlier
\* stage (so SelectGame, EnterStartDays and EnterEndDays are passed in that
\* order, once each at most, and from ShowTable on the screen is ShowTable
\* or Downloading); SelectSeries is never the screen; and a fetch is
\* dispatched only by the step that leaves EnterEndDays, so once at most.
C36_ScreenMovesForward ==
    [][/\ C36_Stage(CurrentState') >= C36_Stage(CurrentState)
       /\ C36_Stage(CurrentState') <= C36_Stage(CurrentState) + 1
       /\ CurrentState' # "SelectSeries"
       /\ last'.cmd.kind = "fetch"
             => /\ CurrentState = "EnterEndDays"
                /\ CurrentState' = "ShowTable"]_vars

\* C36 witness: after the fetch a row was confirmed and Enter pressed
\* again in Downloading: the screen is back at ShowTable with the download
\* still outstanding.
C36_Witness ==
    /\ last.op = "key"
    /\ last.msg.text = "enter"
    /\ CurrentState = "ShowTable"
    /\ ~Loading
    /\ \E cmd \in BagToSet(inflight) : cmd.kind = "download"
    /\ \A cmd \in BagToSet(inflight) : cmd.kind # "fetch"

\* C37: Enter in ShowTable with a table that has no rows (the fetch still
\* outstanding, failed, or without a row to show) reads no row and does
\* not crash the program.
C37_EnterOnEmptyTableSafe ==
    [][(/\ last'.op = "key"
        /\ last'.msg.text = "enter"
        /\ CurrentState = "ShowTable"
        /\ Table.rows = <<>>)
          => /\ proc' = "running"
             /\ last'.cmd = NoCmd]_vars

\* C38: with every command delivering its message and no key pressed,
\* loading, once true, becomes false again while the program runs: after a
\* fetch, whether it succeeded or failed, and after a download.
C38_LoadingEnds ==
    Loading ~> (~Loading \/ proc # "running")

\* C39: whenever InitConfig has returned without an error (the session
\* starts), the key the gateway will send is not empty, also when it was
\* just read from standard input.
C39_KeyNotEmptyAfterInit ==
    (last.op = "InitConfig" /\ proc = "running")
        => (Config.state = "ok" /\ GetAPIKey(Config) # <<>>)

====
